---- MODULE Spec2Model ----
(***************************************************************************)
(* Model of keep's WorkflowManager (keep/workflowmanager/workflowmanager.py)*)
(* and of the add_comment route (keep/api/routes/incidents.py).             *)
(*                                                                          *)
(* Python values are records [t, v]: t is the Python type, v the payload.   *)
(* A Python str is a tuple of one-character strings, so that slicing,       *)
(* prefix tests and regular expressions are computed, not assumed.          *)
(***************************************************************************)
EXTENDS Integers, Sequences, FiniteSets, TLC

\* ---------------------------------------------------------------- bounds
\* Most runs one behaviour enqueues (queued plus already drained).
MaxQueue == 3
\* Most filters of one trigger, most triggers of one workflow (SpecMatch).
MaxFilters == 2
MaxTriggers == 2

\* --------------------------------------------------------- Python values
PyStr(s) == [t |-> "str", v |-> s]
PyBool(b) == [t |-> "bool", v |-> b]
PyInt(n) == [t |-> "int", v |-> n]
\* A list is kept by its elements.
PyList(xs) == [t |-> "list", v |-> xs]
PyNone == [t |-> "none", v |-> <<>>]

\* bool(x): the truth value Python gives x in `if x` / `not x`.
Truthy(x) ==
    CASE x.t = "bool" -> x.v
      [] x.t = "int" -> x.v # 0
      [] x.t = "str" -> Len(x.v) > 0
      [] x.t = "list" -> Len(x.v) > 0
      [] OTHER -> FALSE

\* a == b on Python values: bool is a subclass of int (True == 1), a str is
\* equal only to a str, None only to None.
NumOf(x) == IF x.t = "bool" THEN (IF x.v THEN 1 ELSE 0) ELSE x.v
PyEq(a, b) ==
    CASE a.t \in {"bool", "int"} /\ b.t \in {"bool", "int"} -> NumOf(a) = NumOf(b)
      [] a.t = "str" /\ b.t = "str" -> a.v = b.v
      [] a.t = "none" /\ b.t = "none" -> TRUE
      [] OTHER -> FALSE

\* str(b) of a bool: "True" / "False".
PyStrOfBool(b) == IF b THEN <<"T", "r", "u", "e">> ELSE <<"F", "a", "l", "s", "e">>

\* ---------------------------------------------------- regular expressions
\* The fragment of Python's re the model computes: "^" asserts the start of
\* the string, "." consumes any character, "(" opens a group (never closed in
\* the patterns used, so re.compile raises), every other character is a
\* literal.
ReCompiles(p) == \A i \in 1..Len(p) : p[i] # "("

\* The position after a match of p[j..] starting at position i of s (i
\* characters already consumed), or -1.
RECURSIVE ReMatchAt(_, _, _, _)
ReMatchAt(p, s, i, j) ==
    IF j > Len(p) THEN i
    ELSE IF p[j] = "^" THEN (IF i = 0 THEN ReMatchAt(p, s, i, j + 1) ELSE -1)
    ELSE IF i >= Len(s) THEN -1
    ELSE IF p[j] = "." \/ p[j] = s[i + 1] THEN ReMatchAt(p, s, i + 1, j + 1)
    ELSE -1

\* pattern.findall(s): the non-overlapping matches, scanning left to right;
\* after an empty match the scan moves on by one character.
RECURSIVE ReFindall(_, _, _)
ReFindall(p, s, i) ==
    IF i > Len(s) THEN <<>>
    ELSE LET e == ReMatchAt(p, s, i, 1) IN
         IF e = -1 THEN ReFindall(p, s, i + 1)
         ELSE <<SubSeq(s, i + 1, e)>> \o ReFindall(p, s, IF e = i THEN i + 1 ELSE e)

\* isinstance(filter_val, str) and filter_val.startswith('r"')
IsRegexMarker(filter_val) ==
    /\ filter_val.t = "str"
    /\ Len(filter_val.v) >= 2
    /\ filter_val.v[1] = "r"
    /\ filter_val.v[2] = "\""

\* filter_val[2:-1]
RegexPattern(filter_val) == SubSeq(filter_val.v, 3, Len(filter_val.v) - 1)

\* _apply_filter whose except clause returns True.
apply_filter_error_matches(filter_val, value) ==
    IF IsRegexMarker(filter_val)
    THEN IF ReCompiles(RegexPattern(filter_val)) /\ value.t = "str"
         THEN PyList(ReFindall(RegexPattern(filter_val), value.v, 0))
         ELSE PyBool(TRUE)
    ELSE IF filter_val.t = "bool" /\ value.t = "str"
         THEN PyBool(value.v = PyStrOfBool(filter_val.v))
         ELSE PyBool(PyEq(value, filter_val))

\* WorkflowManager._apply_filter: the Python value it returns.
apply_filter(filter_val, value) ==
    IF IsRegexMarker(filter_val)
    THEN IF ReCompiles(RegexPattern(filter_val)) /\ value.t = "str"
         THEN PyList(ReFindall(RegexPattern(filter_val), value.v, 0))
         ELSE PyBool(FALSE)   \* re.error or TypeError, caught
    ELSE IF filter_val.t = "bool" /\ value.t = "str"
         THEN PyBool(value.v = PyStrOfBool(filter_val.v))
         ELSE PyBool(PyEq(value, filter_val))

\* ------------------------------------------------------ workflow definitions
\* One FilterSpec, one TriggerSpec, one entry of the tenant's workflow store.
\* resolve is what workflow_store.get_workflow does for the entry: "ok",
\* "ProviderConfigurationException" or "Exception".
Filter(key, value, exclude) == [key |-> key, value |-> value, exclude |-> exclude]
Trigger(type, events, filters) == [type |-> type, events |-> events, filters |-> filters]
WorkflowModel(id, is_disabled, resolve, triggers) ==
    [id |-> id, is_disabled |-> is_disabled, resolve |-> resolve, triggers |-> triggers]

TenantId == "tenant-1"

\* WorkflowManager._get_workflow_from_store: the workflow, or None when
\* get_workflow raised (both except clauses log and fall through).
get_workflow_from_store(workflow_model) ==
    IF workflow_model.resolve = "ok"
    THEN [t |-> "workflow", v |-> workflow_model]
    ELSE PyNone

\* The filter loop without its `if filter_applied and filter_exclude` test.
RECURSIVE trigger_should_run_no_exclude(_, _, _)
trigger_should_run_no_exclude(filters, data, i) ==
    IF i > Len(filters) THEN TRUE
    ELSE LET filter == filters[i] IN
         IF filter.key \in DOMAIN data
         THEN LET filter_applied == Truthy(apply_filter(filter.value, data[filter.key])) IN
              IF ~filter_applied /\ ~filter.exclude THEN FALSE
              ELSE trigger_should_run_no_exclude(filters, data, i + 1)
         ELSE FALSE

\* The filter loop skipping a filter whose key the event lacks.
RECURSIVE trigger_should_run_skip_absent(_, _, _)
trigger_should_run_skip_absent(filters, data, i) ==
    IF i > Len(filters) THEN TRUE
    ELSE LET filter == filters[i] IN
         IF filter.key \in DOMAIN data
         THEN LET filter_applied == Truthy(apply_filter(filter.value, data[filter.key])) IN
              IF ~filter_applied /\ ~filter.exclude THEN FALSE
              ELSE IF filter_applied /\ filter.exclude THEN FALSE
              ELSE trigger_should_run_skip_absent(filters, data, i + 1)
         ELSE trigger_should_run_skip_absent(filters, data, i + 1)

\* ------------------------------------------- matching of user_assigned events
\* insert_user_assigned_event, the loop over one trigger's filters: the
\* should_run it leaves, from filter i on (should_run starts True).
RECURSIVE trigger_should_run(_, _, _)
trigger_should_run(filters, data, i) ==
    IF i > Len(filters) THEN TRUE
    ELSE LET filter == filters[i] IN
         IF filter.key \in DOMAIN data
         THEN LET filter_applied == Truthy(apply_filter(filter.value, data[filter.key])) IN
              IF ~filter_applied /\ ~filter.exclude THEN FALSE
              ELSE IF filter_applied /\ filter.exclude THEN FALSE
              ELSE trigger_should_run(filters, data, i + 1)
         ELSE FALSE

\* insert_user_assigned_event, the loop over the user_assigned triggers: the
\* triggers it evaluates, in order, each with the should_run it yields; the
\* loop breaks after the first trigger that yields True.
RECURSIVE evaluate_triggers(_, _, _)
evaluate_triggers(triggers, data, i) ==
    IF i > Len(triggers) THEN <<>>
    ELSE LET r == trigger_should_run(triggers[i].filters, data, 1) IN
         <<[filters |-> triggers[i].filters, should_run |-> r]>>
             \o (IF r THEN <<>> ELSE evaluate_triggers(triggers, data, i + 1))

IsUserAssigned(trigger) == trigger.type = "user_assigned"
user_assigned_triggers(workflow) == SelectSeq(workflow.triggers, IsUserAssigned)

\* should_run after the trigger loop (False when there is no trigger).
should_run_of(evals) == Len(evals) > 0 /\ evals[Len(evals)].should_run

\* Whether the loop body of insert_user_assigned_event reaches the enqueue
\* for this store entry.
user_assigned_matches(workflow_model, data) ==
    /\ ~workflow_model.is_disabled
    /\ get_workflow_from_store(workflow_model).t # "none"
    /\ user_assigned_triggers(workflow_model) # <<>>
    /\ should_run_of(evaluate_triggers(user_assigned_triggers(workflow_model), data, 1))

\* The trigger evaluations the loop body performs for this store entry.
user_assigned_evals(workflow_model, data) ==
    IF workflow_model.is_disabled \/ get_workflow_from_store(workflow_model).t = "none"
    THEN <<>>
    ELSE evaluate_triggers(user_assigned_triggers(workflow_model), data, 1)

user_assigned_run(workflow_model, data) ==
    [workflow_id |-> workflow_model.id, tenant_id |-> TenantId,
     triggered_by |-> <<"user_assigned">>, event |-> data]

\* ------------------------------------------------ matching of incident events
\* The flattened events of the workflow's incident triggers.
incident_triggers(workflow) ==
    UNION {workflow.triggers[i].events :
             i \in {j \in 1..Len(workflow.triggers) : workflow.triggers[j].type = "incident"}}

\* insert_incident testing only that the workflow has incident triggers, not
\* that the transition is among their events.
incident_matches_any_transition(workflow_model, trigger) ==
    /\ ~workflow_model.is_disabled
    /\ get_workflow_from_store(workflow_model).t # "none"
    /\ incident_triggers(workflow_model) # {}

\* insert_incident without its `if workflow_model.is_disabled` test.
incident_matches_ignoring_disabled(workflow_model, trigger) ==
    /\ get_workflow_from_store(workflow_model).t # "none"
    /\ trigger \in incident_triggers(workflow_model)

incident_matches(workflow_model, trigger) ==
    /\ ~workflow_model.is_disabled
    /\ get_workflow_from_store(workflow_model).t # "none"
    /\ trigger \in incident_triggers(workflow_model)

\* The merge with the incident's own value kept on conflict.
enrich_keeping_original(incident, incident_enrichment) ==
    IF incident_enrichment.found
    THEN [k \in DOMAIN incident \cup DOMAIN incident_enrichment.enrichments |->
            IF k \in DOMAIN incident
            THEN incident[k] ELSE incident_enrichment.enrichments[k]]
    ELSE incident

\* get_enrichment's answer is None or a mapping; setattr(incident, k, v) for
\* each pair of it.
NoEnrichment == [found |-> FALSE, enrichments |-> <<>>]
Enrichment(m) == [found |-> TRUE, enrichments |-> m]
enrich(incident, incident_enrichment) ==
    IF incident_enrichment.found
    THEN [k \in DOMAIN incident \cup DOMAIN incident_enrichment.enrichments |->
            IF k \in DOMAIN incident_enrichment.enrichments
            THEN incident_enrichment.enrichments[k] ELSE incident[k]]
    ELSE incident

incident_run(workflow_model, incident, trigger) ==
    [workflow_id |-> workflow_model.id, tenant_id |-> TenantId,
     triggered_by |-> <<"incident", trigger>>, event |-> incident]

\* ------------------------------------------------------ the insert_* handlers
\* What one call leaves: the scheduler's workflows_to_run, the exception that
\* left the call ("None": it returned) and the trigger evaluations it made.
\* self.scheduler is None after stop(), and self.scheduler.lock then raises
\* AttributeError at the first workflow that reaches the enqueue.
RECURSIVE insert_user_assigned_event(_, _, _, _, _)
insert_user_assigned_event(sched, all_workflow_models, data, i, acc) ==
    IF i > Len(all_workflow_models) THEN acc
    ELSE LET workflow_model == all_workflow_models[i]
             seen == [acc EXCEPT !.evals = @ \o user_assigned_evals(workflow_model, data)]
         IN IF ~user_assigned_matches(workflow_model, data)
            THEN insert_user_assigned_event(sched, all_workflow_models, data, i + 1, seen)
            ELSE IF sched = "None"
            THEN [seen EXCEPT !.exc = "AttributeError"]
            ELSE insert_user_assigned_event(sched, all_workflow_models, data, i + 1,
                    [seen EXCEPT !.queue = Append(@, user_assigned_run(workflow_model, data))])

RECURSIVE insert_incident(_, _, _, _, _, _, _)
insert_incident(sched, all_workflow_models, incident, incident_enrichment, trigger, i, acc) ==
    IF i > Len(all_workflow_models) THEN acc
    ELSE LET workflow_model == all_workflow_models[i] IN
         IF ~incident_matches(workflow_model, trigger)
         THEN insert_incident(sched, all_workflow_models, incident, incident_enrichment,
                              trigger, i + 1, acc)
         ELSE IF sched = "None"
         THEN [acc EXCEPT !.exc = "AttributeError"]
         ELSE insert_incident(sched, all_workflow_models, incident, incident_enrichment,
                 trigger, i + 1,
                 [acc EXCEPT !.queue = Append(@, incident_run(workflow_model,
                                   enrich(incident, incident_enrichment), trigger))])

CallStart(queue) == [queue |-> queue, exc |-> "None", evals |-> <<>>]

\* ------------------------------------------------------------------ inputs
S_alice == <<"a", "l", "i", "c", "e">>
S_bob_smith == <<"b", "o", "b", ".", "s", "m", "i", "t", "h">>
S_critical == <<"c", "r", "i", "t", "i", "c", "a", "l">>
S_low == <<"l", "o", "w">>
S_me == <<"m", "e">>
S_i1 == <<"i", "1">>
S_c1 == <<"c", "1">>
S_ops == <<"o", "p", "s">>
S_hi == <<"h", "i">>

\* The tenant's workflow store of Spec, SpecComment and SpecConc.
StoreWorkflows ==
    << WorkflowModel("wf-created", FALSE, "ok",
          <<Trigger("incident", {"created"}, <<>>)>>),
       WorkflowModel("wf-mention", FALSE, "ok",
          <<Trigger("user_assigned", {},
              <<Filter("mentioned_user", PyStr(S_alice), FALSE)>>)>>),
       WorkflowModel("wf-severity", FALSE, "ok",
          <<Trigger("incident", {"created", "resolved"},
              <<Filter("severity", PyStr(S_critical), FALSE)>>)>>),
       WorkflowModel("wf-team", FALSE, "ok",
          <<Trigger("incident", {"resolved"},
              <<Filter("team", PyStr(S_ops), TRUE)>>)>>),
       WorkflowModel("wf-disabled", TRUE, "ok",
          <<Trigger("incident", {"created"}, <<>>), Trigger("user_assigned", {}, <<>>)>>),
       WorkflowModel("wf-unconfigured", FALSE, "ProviderConfigurationException",
          <<Trigger("incident", {"created"}, <<>>), Trigger("user_assigned", {}, <<>>)>>),
       WorkflowModel("wf-alert", FALSE, "ok",
          <<Trigger("alert", {}, <<>>), Trigger("interval", {}, <<>>)>>) >>

Incidents ==
    { [id |-> PyStr(S_i1), severity |-> PyStr(S_critical)],
      [id |-> PyStr(S_i1), severity |-> PyStr(S_low)] }
Transitions == {"created", "resolved"}
Enrichments ==
    { NoEnrichment, Enrichment([severity |-> PyStr(S_low), team |-> PyStr(S_ops)]) }

\* The mapping add_comment hands to insert_user_assigned_event.
MentionData(incident_id, comment_id, mentioned_user, mentioned_by, comment_text) ==
    [incident_id |-> PyStr(incident_id), comment_id |-> PyStr(comment_id),
     mentioned_user |-> PyStr(mentioned_user), mentioned_by |-> PyStr(mentioned_by),
     comment_text |-> PyStr(comment_text)]

\* insert_user_assigned_event takes any mapping: two mention mappings and one
\* without the mentioned_user key.
UserAssignedData ==
    { MentionData(S_i1, S_c1, S_alice, S_me, S_hi),
      MentionData(S_i1, S_c1, S_bob_smith, S_me, S_hi),
      [incident_id |-> PyStr(S_i1)] }

\* ------------------------------------------------------------------- state
VARIABLES
    started,           \* WorkflowManager.started
    scheduler,         \* WorkflowManager.scheduler: "WorkflowScheduler" or "None"
    sched_running,     \* the WorkflowScheduler's loop is running
    workflows_to_run,  \* the WorkflowScheduler's workflows_to_run
    lock,              \* the WorkflowScheduler's lock: "free" or its holder
    drained,           \* the runs the scheduler's loop took from workflows_to_run
    start_calls,       \* calls of scheduler.start()
    stop_calls,        \* calls of scheduler.stop()
    workflows,         \* what workflow_store.get_all_workflows(tenant) returns
    threads,           \* the producer threads of SpecConc
    last,              \* the last call: its name, arguments and outcome
    manager_class      \* the WorkflowManager class: _instance and its uses

vars == <<started, scheduler, sched_running, workflows_to_run, lock, drained,
          start_calls, stop_calls, workflows, threads, last, manager_class>>

\* The record of a call: op its name, exc the exception that left it ("None":
\* it returned), before the manager's started flag when it was made, arg its
\* arguments, evals the trigger evaluations it made, records the mention
\* records it committed, calls the insert_user_assigned_event calls it made.
Call(op, exc, before, arg, evals, records, calls) ==
    [op |-> op, exc |-> exc, before |-> before, arg |-> arg, evals |-> evals,
     records |-> records, calls |-> calls]
SimpleCall(op, exc, before) == Call(op, exc, before, <<>>, <<>>, <<>>, <<>>)

NoThreads == [t \in {} |-> <<>>]

\* The WorkflowManager class before any get_instance call: instance is the
\* manager _instance holds (0: the attribute is not set; managers are numbered
\* as they are constructed), constructed the WorkflowManager() calls made by
\* get_instance, returned the managers get_instance has returned.
NoInstance == [instance |-> 0, constructed |-> 0, returned |-> {}]

\* WorkflowManager.__init__, with a scheduler that was never started.
InitManager ==
    /\ started = FALSE
    /\ scheduler = "WorkflowScheduler"
    /\ sched_running = FALSE
    /\ workflows_to_run = <<>>
    /\ lock = "free"
    /\ drained = <<>>
    /\ start_calls = 0
    /\ stop_calls = 0
    /\ last = SimpleCall("__init__", "None", FALSE)
    /\ manager_class = NoInstance

Init ==
    /\ InitManager
    /\ workflows = StoreWorkflows
    /\ threads = NoThreads

\* ---------------------------------------------------------------- lifecycle
\* start() without its `if self.started: return`.
Start_unguarded ==
    /\ IF scheduler = "None"
       THEN /\ last' = SimpleCall("start", "AttributeError", started)
            /\ UNCHANGED <<started, sched_running, start_calls>>
       ELSE /\ sched_running' = TRUE
            /\ start_calls' = start_calls + 1
            /\ started' = TRUE
            /\ last' = SimpleCall("start", "None", started)
    /\ UNCHANGED <<scheduler, workflows_to_run, lock, drained, stop_calls, workflows, threads, manager_class>>

\* WorkflowManager.start, its calls made one after the other.
Start ==
    /\ IF started
       THEN /\ last' = SimpleCall("start", "None", started)
            /\ UNCHANGED <<started, sched_running, start_calls>>
       ELSE IF scheduler = "None"
       THEN \* await self.scheduler.start() on None
            /\ last' = SimpleCall("start", "AttributeError", started)
            /\ UNCHANGED <<started, sched_running, start_calls>>
       ELSE /\ sched_running' = TRUE
            /\ start_calls' = start_calls + 1
            /\ started' = TRUE
            /\ last' = SimpleCall("start", "None", started)
    /\ UNCHANGED <<scheduler, workflows_to_run, lock, drained, stop_calls, workflows, threads, manager_class>>

\* stop() without its `if not self.started: return`.
Stop_unguarded ==
    /\ IF scheduler = "None"
       THEN /\ last' = SimpleCall("stop", "AttributeError", started)
            /\ UNCHANGED <<started, scheduler, sched_running, stop_calls>>
       ELSE /\ sched_running' = FALSE
            /\ stop_calls' = stop_calls + 1
            /\ started' = FALSE
            /\ scheduler' = "None"
            /\ last' = SimpleCall("stop", "None", started)
    /\ UNCHANGED <<workflows_to_run, lock, drained, start_calls, workflows, threads, manager_class>>

\* WorkflowManager.stop.
Stop ==
    /\ IF ~started
       THEN /\ last' = SimpleCall("stop", "None", started)
            /\ UNCHANGED <<started, scheduler, sched_running, stop_calls>>
       ELSE IF scheduler = "None"
       THEN /\ last' = SimpleCall("stop", "AttributeError", started)
            /\ UNCHANGED <<started, scheduler, sched_running, stop_calls>>
       ELSE /\ sched_running' = FALSE
            /\ stop_calls' = stop_calls + 1
            /\ started' = FALSE
            /\ scheduler' = "None"
            /\ last' = SimpleCall("stop", "None", started)
    /\ UNCHANGED <<workflows_to_run, lock, drained, start_calls, workflows, threads, manager_class>>

\* One tick of the scheduler's loop: under the lock it takes everything queued
\* and hands it to the worker pool.
Tick ==
    /\ sched_running
    /\ lock = "free"
    /\ workflows_to_run # <<>>
    /\ drained' = drained \o workflows_to_run
    /\ workflows_to_run' = <<>>
    /\ last' = SimpleCall("tick", "None", started)
    /\ UNCHANGED <<started, scheduler, sched_running, lock, start_calls, stop_calls,
                   workflows, threads, manager_class>>

\* ------------------------------------------------------- the producer calls
\* One insert_incident call, run to its end.
InsertIncident ==
    \E incident \in Incidents, trigger \in Transitions, incident_enrichment \in Enrichments :
        LET r == insert_incident(scheduler, workflows, incident, incident_enrichment,
                                 trigger, 1, CallStart(workflows_to_run)) IN
        /\ Len(r.queue) + Len(drained) <= MaxQueue
        /\ workflows_to_run' = r.queue
        /\ last' = Call("insert_incident", r.exc, started,
                        <<incident, trigger, incident_enrichment>>, <<>>, <<>>, <<>>)
        /\ UNCHANGED <<started, scheduler, sched_running, lock, drained, start_calls,
                       stop_calls, workflows, threads, manager_class>>

\* One insert_user_assigned_event call, run to its end.
InsertUserAssignedOf(inputs) ==
    \E data \in inputs :
        LET r == insert_user_assigned_event(scheduler, workflows, data, 1,
                                            CallStart(workflows_to_run)) IN
        /\ Len(r.queue) + Len(drained) <= MaxQueue
        /\ workflows_to_run' = r.queue
        /\ last' = Call("insert_user_assigned_event", r.exc, started, <<data>>,
                        r.evals, <<>>, <<>>)
        /\ UNCHANGED <<started, scheduler, sched_running, lock, drained, start_calls,
                       stop_calls, workflows, threads, manager_class>>

InsertUserAssigned == InsertUserAssignedOf(UserAssignedData)

Next == Start \/ Stop \/ Tick \/ InsertIncident \/ InsertUserAssigned

Spec == Init /\ [][Next]_vars

\* ------------------------------------------------------ the add_comment route
\* The characters of [a-zA-Z0-9_\.].
NameChars ==
    { "a", "b", "c", "d", "e", "f", "g", "h", "i", "j", "k", "l", "m",
      "n", "o", "p", "q", "r", "s", "t", "u", "v", "w", "x", "y", "z",
      "A", "B", "C", "D", "E", "F", "G", "H", "I", "J", "K", "L", "M",
      "N", "O", "P", "Q", "R", "S", "T", "U", "V", "W", "X", "Y", "Z",
      "0", "1", "2", "3", "4", "5", "6", "7", "8", "9", "_", "." }

\* The length of the longest run of name characters of s from position i.
RECURSIVE NameRun(_, _)
NameRun(s, i) == IF i <= Len(s) /\ s[i] \in NameChars THEN 1 + NameRun(s, i + 1) ELSE 0

\* re.findall(r'@([a-zA-Z0-9_\.]+)', s): the group of each match, scanning s
\* from position i.
RECURSIVE find_mentions(_, _)
find_mentions(s, i) ==
    IF i > Len(s) THEN <<>>
    ELSE IF s[i] = "@" /\ NameRun(s, i + 1) > 0
         THEN <<SubSeq(s, i + 1, i + NameRun(s, i + 1))>>
                  \o find_mentions(s, i + 1 + NameRun(s, i + 1))
         ELSE find_mentions(s, i + 1)

\* The CommentMention rows of a comment's mentions.
RECURSIVE mention_records(_, _)
mention_records(mentions, i) ==
    IF i > Len(mentions) THEN <<>>
    ELSE <<[tenant_id |-> TenantId, comment_id |-> S_c1, user_id |-> mentions[i]]>>
             \o mention_records(mentions, i + 1)

\* add_comment's `for mentioned_user in mentions` under `if pusher_client`: one
\* insert_user_assigned_event call per mention, until one raises (the except
\* clause of add_comment ends the loop).
RECURSIVE mention_loop(_, _, _, _, _, _)
mention_loop(sched, all_workflow_models, mentions, comment_text, i, acc) ==
    IF i > Len(mentions) THEN acc
    ELSE LET data == MentionData(S_i1, S_c1, mentions[i], S_me, comment_text)
             r == insert_user_assigned_event(sched, all_workflow_models, data, 1,
                                             CallStart(acc.queue))
             called == [acc EXCEPT !.queue = r.queue, !.calls = Append(@, data)]
         IN IF r.exc # "None" THEN called
            ELSE mention_loop(sched, all_workflow_models, mentions, comment_text, i + 1, called)

\* add_comment from the parsing of the mentions on: the rows committed, the
\* insert_user_assigned_event calls made and the queue they leave.
\* pusher_client is "Pusher" or "None"; commit_ok is whether session.commit()
\* succeeds.
add_comment(sched, all_workflow_models, comment_text, pusher_client, commit_ok, queue) ==
    LET mentions == find_mentions(comment_text, 1)
        nothing == [queue |-> queue, calls |-> <<>>, records |-> <<>>]
    IN IF mentions = <<>> \/ ~commit_ok THEN nothing
       ELSE IF pusher_client = "None"
       THEN [nothing EXCEPT !.records = mention_records(mentions, 1)]
       ELSE [mention_loop(sched, all_workflow_models, mentions, comment_text, 1, nothing)
                EXCEPT !.records = mention_records(mentions, 1)]

S_example ==
    <<"p", "i", "n", "g", " ", "@", "a", "l", "i", "c", "e", " ", "a", "n", "d", " ",
      "@", "b", "o", "b", ".", "s", "m", "i", "t", "h", " ", "p", "l", "e", "a", "s", "e",
      " ", "l", "o", "o", "k">>
Comments ==
    { S_example,
      S_hi,
      <<"@", "a", "l", "i", "c", "e", " ", "@", "a", "l", "i", "c", "e">>,
      <<"a", "@", "b", ".", "c">>,
      <<"h", "i", " ", "@">> }
PusherClients == {"Pusher", "None"}

\* One add_comment request, run to its end.
AddComment ==
    \E comment_text \in Comments, pusher_client \in PusherClients, commit_ok \in BOOLEAN :
        LET r == add_comment(scheduler, workflows, comment_text, pusher_client, commit_ok,
                             workflows_to_run) IN
        /\ Len(r.queue) + Len(drained) <= MaxQueue
        /\ workflows_to_run' = r.queue
        /\ last' = Call("add_comment", "None", started,
                        <<comment_text, pusher_client, commit_ok>>, <<>>, r.records, r.calls)
        /\ UNCHANGED <<started, scheduler, sched_running, lock, drained, start_calls,
                       stop_calls, workflows, threads, manager_class>>

NextComment == Start \/ Stop \/ Tick \/ AddComment

SpecComment == Init /\ [][NextComment]_vars

\* ------------------------------------ SpecConc: insert_* calls on threads
\* Each producer thread makes one insert_* call, taken step by step: pc is its
\* place in the handler, i the index of the workflow its loop is at, exc the
\* exception that left the call ("None": none), tail its view of
\* workflows_to_run while it appends.
Threads == {"t1", "t2"}

IncidentCall(incident, trigger, incident_enrichment) ==
    [op |-> "insert_incident", incident |-> incident, trigger |-> trigger,
     incident_enrichment |-> incident_enrichment, data |-> <<>>]
UserAssignedCall(data) ==
    [op |-> "insert_user_assigned_event", incident |-> <<>>, trigger |-> "",
     incident_enrichment |-> NoEnrichment, data |-> data]
NoCall == [op |-> "", incident |-> <<>>, trigger |-> "",
           incident_enrichment |-> NoEnrichment, data |-> <<>>]

ConcCalls ==
    { IncidentCall([id |-> PyStr(S_i1), severity |-> PyStr(S_critical)], "created",
                   NoEnrichment),
      IncidentCall([id |-> PyStr(S_i1), severity |-> PyStr(S_low)], "resolved",
                   NoEnrichment),
      UserAssignedCall(MentionData(S_i1, S_c1, S_alice, S_me, S_hi)),
      UserAssignedCall(MentionData(S_i1, S_c1, S_bob_smith, S_me, S_hi)) }

\* Whether the call's loop body reaches the enqueue for the store entry.
call_matches(call, workflow_model) ==
    IF call.op = "insert_incident"
    THEN incident_matches(workflow_model, call.trigger)
    ELSE user_assigned_matches(workflow_model, call.data)

\* The run the call appends for the store entry.
call_run(call, workflow_model) ==
    IF call.op = "insert_incident"
    THEN incident_run(workflow_model, enrich(call.incident, call.incident_enrichment),
                      call.trigger)
    ELSE user_assigned_run(workflow_model, call.data)

InitConc ==
    /\ InitManager
    /\ workflows = StoreWorkflows
    /\ threads = [t \in Threads |->
                    [pc |-> "idle", call |-> NoCall, i |-> 0, exc |-> "None", tail |-> <<>>]]

ThreadUnchanged ==
    UNCHANGED <<started, scheduler, sched_running, drained, start_calls, stop_calls,
                workflows, last, manager_class>>

\* A producer calls insert_incident or insert_user_assigned_event.
ThreadCall(t) ==
    /\ threads[t].pc = "idle"
    /\ \E call \in ConcCalls :
           threads' = [threads EXCEPT ![t].pc = "loop", ![t].call = call, ![t].i = 1]
    /\ UNCHANGED <<workflows_to_run, lock>>
    /\ ThreadUnchanged

\* The loop body for one workflow, up to `with self.scheduler.lock`; after the
\* last workflow the call returns.
ThreadLoop(t) ==
    /\ threads[t].pc = "loop"
    /\ threads' =
           IF threads[t].i > Len(workflows)
           THEN [threads EXCEPT ![t].pc = "done"]
           ELSE IF call_matches(threads[t].call, workflows[threads[t].i])
           THEN [threads EXCEPT ![t].pc = "lock"]
           ELSE [threads EXCEPT ![t].i = @ + 1]
    /\ UNCHANGED <<workflows_to_run, lock>>
    /\ ThreadUnchanged

\* self.scheduler.lock: AttributeError when stop() has cleared the scheduler.
ThreadLock(t) ==
    /\ threads[t].pc = "lock"
    /\ threads' =
           IF scheduler = "None"
           THEN [threads EXCEPT ![t].pc = "done", ![t].exc = "AttributeError"]
           ELSE [threads EXCEPT ![t].pc = "acquire"]
    /\ UNCHANGED <<workflows_to_run, lock>>
    /\ ThreadUnchanged

\* Entering the with block without waiting for the lock to be free.
ThreadAcquire_no_wait(t) ==
    /\ threads[t].pc = "acquire"
    /\ lock' = t
    /\ threads' = [threads EXCEPT ![t].pc = "load"]
    /\ UNCHANGED workflows_to_run
    /\ ThreadUnchanged

\* Entering the with block: the thread waits until the lock is free.
ThreadAcquire(t) ==
    /\ threads[t].pc = "acquire"
    /\ lock = "free"
    /\ lock' = t
    /\ threads' = [threads EXCEPT ![t].pc = "load"]
    /\ UNCHANGED workflows_to_run
    /\ ThreadUnchanged

\* self.scheduler.workflows_to_run inside the with block: AttributeError (and
\* the with block releases the lock) when stop() has cleared the scheduler;
\* else the first half of append, which reads the list.
ThreadLoad(t) ==
    /\ threads[t].pc = "load"
    /\ IF scheduler = "None"
       THEN /\ threads' = [threads EXCEPT ![t].pc = "done", ![t].exc = "AttributeError"]
            /\ lock' = "free"
       ELSE /\ threads' = [threads EXCEPT ![t].pc = "store", ![t].tail = workflows_to_run]
            /\ UNCHANGED lock
    /\ UNCHANGED workflows_to_run
    /\ ThreadUnchanged

\* The second half of append, which writes the list with the run added.
ThreadStore(t) ==
    /\ threads[t].pc = "store"
    /\ workflows_to_run' =
           Append(threads[t].tail, call_run(threads[t].call, workflows[threads[t].i]))
    /\ threads' = [threads EXCEPT ![t].pc = "release", ![t].tail = <<>>]
    /\ UNCHANGED lock
    /\ ThreadUnchanged

\* Leaving the with block; the loop goes on with the next workflow.
ThreadRelease(t) ==
    /\ threads[t].pc = "release"
    /\ lock' = "free"
    /\ threads' = [threads EXCEPT ![t].pc = "loop", ![t].i = @ + 1]
    /\ UNCHANGED workflows_to_run
    /\ ThreadUnchanged

ThreadStep ==
    \E t \in Threads :
        \/ ThreadCall(t)
        \/ ThreadLoop(t)
        \/ ThreadLock(t)
        \/ ThreadAcquire(t)
        \/ ThreadLoad(t)
        \/ ThreadStore(t)
        \/ ThreadRelease(t)

NextConc == Start \/ Stop \/ Tick \/ ThreadStep

SpecConc == InitConc /\ [][NextConc]_vars

\* ------------------------------------------- SpecMatch: one matching pass
\* The filters the triggers of SpecMatch are built from: an equality filter,
\* an excluding regex filter and a boolean filter.
S_ops_re == <<"r", "\"", "^", "m", "\"">>
S_True == <<"T", "r", "u", "e">>
S_False == <<"F", "a", "l", "s", "e">>
FilterPool ==
    { Filter("mentioned_user", PyStr(S_alice), FALSE),
      Filter("mentioned_by", PyStr(S_ops_re), TRUE),
      Filter("dismissed", PyBool(TRUE), FALSE) }

SeqsUpTo(S, lo, n) == UNION {[1..k -> S] : k \in lo..n}
FilterLists == SeqsUpTo(FilterPool, 0, MaxFilters)
TriggerLists ==
    SeqsUpTo({Trigger("user_assigned", {}, filters) : filters \in FilterLists}, 1, MaxTriggers)

\* The events of SpecMatch: mappings that hold or lack the filters' keys.
MatchData ==
    { [mentioned_user |-> PyStr(S_alice), mentioned_by |-> PyStr(S_me),
       dismissed |-> PyStr(S_True)],
      [mentioned_user |-> PyStr(S_alice), mentioned_by |-> PyStr(S_ops),
       dismissed |-> PyStr(S_True)],
      [mentioned_by |-> PyStr(S_ops), dismissed |-> PyBool(TRUE)],
      [mentioned_user |-> PyStr(S_bob_smith), mentioned_by |-> PyStr(S_ops),
       dismissed |-> PyStr(S_False)],
      [mentioned_user |-> PyStr(S_alice)] }

\* A new manager whose tenant has one enabled, resolvable workflow with any
\* triggers of TriggerLists.
InitMatch ==
    /\ InitManager
    /\ workflows \in {<<WorkflowModel("wf", FALSE, "ok", triggers)>> : triggers \in TriggerLists}
    /\ threads = NoThreads

\* The first insert_user_assigned_event call on that manager.
MatchUserAssigned ==
    /\ last.op = "__init__"
    /\ InsertUserAssignedOf(MatchData)

NextMatch == MatchUserAssigned

SpecMatch == InitMatch /\ [][NextMatch]_vars

\* ------------------------------------ SpecRegex: a pass over regex filters
S_prod_re == <<"r", "\"", "^", "p", "r", "o", "d", "-", "\"">>
S_paren_re == <<"r", "\"", "(", "\"">>
S_5_re == <<"r", "\"", "5", "\"">>
S_prod_east_1 == <<"p", "r", "o", "d", "-", "e", "a", "s", "t", "-", "1">>
S_staging_1 == <<"s", "t", "a", "g", "i", "n", "g", "-", "1">>

\* Triggers of one regex filter on the key env: a pattern anchored at the
\* start, a pattern that does not compile and a one-digit pattern, each
\* including or excluding.
RegexTriggers ==
    { Trigger("user_assigned", {}, <<Filter("env", PyStr(p), exclude)>>) :
        p \in {S_prod_re, S_paren_re, S_5_re}, exclude \in BOOLEAN }
RegexTriggerLists == SeqsUpTo(RegexTriggers, 1, MaxTriggers)

\* The events of SpecRegex: env a str, an int or a bool, or absent.
RegexData ==
    { [env |-> PyStr(S_prod_east_1)],
      [env |-> PyStr(S_staging_1)],
      [env |-> PyInt(5)],
      [env |-> PyBool(TRUE)],
      [mentioned_user |-> PyStr(S_alice)] }

\* A new manager whose tenant has a workflow with any triggers of
\* RegexTriggerLists, followed by a workflow that every user_assigned event
\* matches.
InitRegex ==
    /\ InitManager
    /\ workflows \in
           { << WorkflowModel("wf", FALSE, "ok", triggers),
                WorkflowModel("wf-next", FALSE, "ok", <<Trigger("user_assigned", {}, <<>>)>>) >> :
               triggers \in RegexTriggerLists }
    /\ threads = NoThreads

\* The first insert_user_assigned_event call on that manager.
RegexUserAssigned ==
    /\ last.op = "__init__"
    /\ InsertUserAssignedOf(RegexData)

NextRegex == RegexUserAssigned

SpecRegex == InitRegex /\ [][NextRegex]_vars

\* ------------------------------------- SpecSkip: a pass over any store
\* Most workflows of the tenant's store in SpecSkip.
MaxWorkflows == 3

BothTriggers == <<Trigger("incident", {"created", "resolved"}, <<>>),
                  Trigger("user_assigned", {}, <<>>)>>
\* The store entries of SpecSkip: two enabled, resolvable workflows, a disabled
\* one, one with a provider that is not configured and one whose resolution
\* raises another error.
SkipPool ==
    { WorkflowModel("wf-inc", FALSE, "ok",
          <<Trigger("incident", {"created"}, <<>>),
            Trigger("user_assigned", {}, <<Filter("mentioned_user", PyStr(S_alice), FALSE)>>)>>),
      WorkflowModel("wf-any", FALSE, "ok", BothTriggers),
      WorkflowModel("wf-disabled", TRUE, "ok", BothTriggers),
      WorkflowModel("wf-unconfigured", FALSE, "ProviderConfigurationException", BothTriggers),
      WorkflowModel("wf-broken", FALSE, "Exception", BothTriggers) }

\* The stores: the entries of SkipPool in any order, each at most once.
SkipStores ==
    { s \in SeqsUpTo(SkipPool, 1, MaxWorkflows) :
        \A i, j \in 1..Len(s) : i # j => s[i].id # s[j].id }

InitSkip ==
    /\ InitManager
    /\ workflows \in SkipStores
    /\ threads = NoThreads

\* The first insert call on that manager.
SkipInsertIncident ==
    /\ last.op = "__init__"
    /\ InsertIncident
SkipInsertUserAssigned ==
    /\ last.op = "__init__"
    /\ InsertUserAssigned

NextSkip == SkipInsertIncident \/ SkipInsertUserAssigned

SpecSkip == InitSkip /\ [][NextSkip]_vars

\* ------------------------------------------------ SpecRun: the executor
\* Text (log lines, messages, str(e)) is kept as the sequence of its pieces,
\* so that f-strings and ", ".join are computed.
\* ", ".join(errors)
RECURSIVE Join(_, _)
Join(errors, i) ==
    IF i > Len(errors) THEN <<>>
    ELSE IF i = Len(errors) THEN <<errors[i]>>
    ELSE <<errors[i], ", ">> \o Join(errors, i + 1)

\* WorkflowManager.PREMIUM_PROVIDERS
PREMIUM_PROVIDERS == {"bash", "python", "llamacpp", "ollama"}

\* os.environ.get("AUTH_TYPE", IdentityManagerTypes.NOAUTH.value): "unset" is
\* an environment without the variable.
AuthType(AUTH_TYPE) == IF AUTH_TYPE = "unset" THEN "NOAUTH" ELSE AUTH_TYPE

\* The first premium provider of workflow_providers_type, or "" when none.
RECURSIVE first_premium(_, _)
first_premium(providers, i) ==
    IF i > Len(providers) THEN ""
    ELSE IF providers[i] \in PREMIUM_PROVIDERS THEN providers[i]
    ELSE first_premium(providers, i + 1)

\* _check_premium_providers with the test of AUTH_TYPE left out.
check_premium_providers_any_mode(AUTH_TYPE, workflow) ==
    LET provider == first_premium(workflow.workflow_providers_type, 1) IN
    IF provider # ""
    THEN <<"Provider ", provider, " is a premium provider. You can self-host or contact us to get access to it.">>
    ELSE <<>>

\* WorkflowManager._check_premium_providers: str(e) of the exception it
\* raises, or <<>> when it returns.
check_premium_providers(AUTH_TYPE, workflow) ==
    LET provider == first_premium(workflow.workflow_providers_type, 1) IN
    IF AuthType(AUTH_TYPE) \in {"AUTH0", "MULTI_TENANT"} /\ provider # ""
    THEN <<"Provider ", provider, " is a premium provider. You can self-host or contact us to get access to it.">>
    ELSE <<>>

\* The calls the executor makes to its collaborators.
RunCall(workflow_execution_id) ==
    [call |-> "workflow.run", workflow_execution_id |-> workflow_execution_id]
OnFailureCall(provider_parameters) ==
    [call |-> "on_failure.run", provider_parameters |-> provider_parameters]
SaveCall(tenant_id, workflow_execution_id) ==
    [call |-> "save_workflow_results", tenant_id |-> tenant_id,
     workflow_execution_id |-> workflow_execution_id]

\* What one _run_workflow call has done so far: calls the collaborator calls
\* in order, exc the exception that leaves it ("None": none) with its str(e)
\* in text, errors the list it holds, returned whether it returned
\* [errors, None].
RunStart == [calls |-> <<>>, exc |-> "None", text |-> <<>>, errors |-> <<>>,
             returned |-> FALSE]

\* WorkflowManager._run_workflow_on_failure: n on_failure.run() calls were made
\* before this one in the run; on_failure_run[n + 1] is how this one ends.
run_workflow_on_failure(workflow, env, acc, error_message) ==
    IF workflow.on_failure
    THEN LET n == Cardinality({i \in 1..Len(acc.calls) : acc.calls[i].call = "on_failure.run"})
             message == <<"Workflow ", workflow.workflow_id, " failed with errors: ">>
                            \o error_message
             ran == [acc EXCEPT !.calls = Append(@, OnFailureCall([message |-> message]))]
         IN IF env.on_failure_run[n + 1] = "ok" THEN ran
            ELSE [ran EXCEPT !.exc = "Exception", !.text = <<env.on_failure_run[n + 1]>>]
    ELSE acc

\* The except clause of _run_workflow: on_failure with str(e), then raise; an
\* exception of on_failure.run() leaves in place of e.
run_workflow_except(workflow, env, acc, text) ==
    LET r == run_workflow_on_failure(workflow, env, acc, text) IN
    IF r.exc # "None" THEN r
    ELSE [r EXCEPT !.exc = "Exception", !.text = text]

\* The save with the except clause of _run_workflow around it.
run_workflow_save_compensating(workflow, workflow_execution_id, env, acc) ==
    LET saved == [acc EXCEPT !.calls =
                      Append(@, SaveCall(workflow.tenant_id, workflow_execution_id))]
    IN IF env.save = "ok" THEN [saved EXCEPT !.returned = TRUE]
       ELSE run_workflow_except(workflow, env, saved, <<env.save>>)

\* _save_workflow_results and the return of _run_workflow.
run_workflow_save(workflow, workflow_execution_id, env, acc) ==
    LET saved == [acc EXCEPT !.calls =
                      Append(@, SaveCall(workflow.tenant_id, workflow_execution_id))]
    IN IF env.save = "ok" THEN [saved EXCEPT !.returned = TRUE]
       ELSE [saved EXCEPT !.exc = "Exception", !.text = <<env.save>>]

\* workflow.run(workflow_execution_id) either returns its list of error texts
\* or raises.
RunReturns(errors) == [raises |-> FALSE, text |-> "", errors |-> errors]
RunRaises(text) == [raises |-> TRUE, text |-> text, errors |-> <<>>]

\* WorkflowManager._run_workflow. env holds how the collaborators answer in
\* this run: run (workflow.run), on_failure_run (each on_failure.run() in turn)
\* and save (save_workflow_results).
run_workflow(AUTH_TYPE, workflow, workflow_execution_id, env) ==
    LET premium == check_premium_providers(AUTH_TYPE, workflow)
        ran == [RunStart EXCEPT !.calls = <<RunCall(workflow_execution_id)>>]
        held == [ran EXCEPT !.errors = env.run.errors]
        compensated == run_workflow_on_failure(workflow, env, held, Join(env.run.errors, 1))
    IN IF premium # <<>>
       THEN run_workflow_except(workflow, env, RunStart, premium)
       ELSE IF env.run.raises
       THEN run_workflow_except(workflow, env, ran, <<env.run.text>>)
       ELSE IF env.run.errors = <<>>
       THEN run_workflow_save(workflow, workflow_execution_id, env, held)
       ELSE IF compensated.exc # "None"
       THEN \* on_failure.run() raised inside the try block
            run_workflow_except(workflow, env,
                                [compensated EXCEPT !.exc = "None", !.text = <<>>],
                                compensated.text)
       ELSE run_workflow_save(workflow, workflow_execution_id, env, compensated)

\* str(uuid.uuid4()) of the i-th workflow of a batch: a fresh id.
Uuid(i) == <<"uuid4", i>>

\* WorkflowManager._run_workflows_from_cli, from workflow i on. Each entry of
\* workflows is a workflow with the answers of its collaborators.
BatchStart == [calls |-> <<>>, exc |-> "None", text |-> <<>>, errors |-> <<>>,
               returned |-> FALSE]
RECURSIVE run_workflows_from_cli(_, _, _, _)
run_workflows_from_cli(AUTH_TYPE, batch, i, acc) ==
    IF i > Len(batch) THEN [acc EXCEPT !.returned = TRUE]
    ELSE LET r == run_workflow(AUTH_TYPE, batch[i].workflow, Uuid(i), batch[i].env)
             done == [acc EXCEPT !.calls = @ \o r.calls]
         IN IF r.exc # "None"
            THEN [done EXCEPT !.exc = r.exc, !.text = r.text]
            ELSE run_workflows_from_cli(AUTH_TYPE, batch, i + 1,
                     [done EXCEPT !.errors = Append(@, r.errors)])

\* ----------------------------------------------------- inputs of SpecRun
\* Most workflows of one _run_workflows_from_cli call.
MaxBatch == 2

\* AUTH0 stands for IdentityManagerTypes.AUTH0.value.
AuthTypes == {"unset", "NOAUTH", "AUTH0", "MULTI_TENANT"}
ExecWorkflow(workflow_id, workflow_providers_type, on_failure) ==
    [workflow_id |-> workflow_id, tenant_id |-> TenantId,
     workflow_providers_type |-> workflow_providers_type, on_failure |-> on_failure]
ExecWorkflows ==
    { ExecWorkflow("wf-a", providers, on_failure) :
        providers \in {<<>>, <<"slack">>, <<"slack", "bash">>}, on_failure \in BOOLEAN }
RunOutcomes ==
    { RunReturns(<<>>), RunReturns(<<"e1">>), RunReturns(<<"e1", "e2">>), RunRaises("boom") }
OnFailureOutcomes == {"ok", "on_failure failed"}
SaveOutcomes == {"ok", "storage error"}
Env(run, on_failure_run, save) ==
    [run |-> run, on_failure_run |-> on_failure_run, save |-> save]
Envs ==
    { Env(run, on_failure_run, save) :
        run \in RunOutcomes, on_failure_run \in [1..2 -> OnFailureOutcomes],
        save \in SaveOutcomes }

\* The workflows a batch is made of: one that succeeds, one that returns
\* errors, one whose run raises and one whose results cannot be saved.
BatchPool ==
    { [workflow |-> ExecWorkflow("wf-a", <<"slack">>, TRUE),
       env |-> Env(RunReturns(<<>>), <<"ok", "ok">>, "ok")],
      [workflow |-> ExecWorkflow("wf-b", <<"slack">>, TRUE),
       env |-> Env(RunReturns(<<"e1">>), <<"ok", "ok">>, "ok")],
      [workflow |-> ExecWorkflow("wf-c", <<"bash">>, FALSE),
       env |-> Env(RunRaises("boom"), <<"ok", "ok">>, "ok")],
      [workflow |-> ExecWorkflow("wf-d", <<>>, FALSE),
       env |-> Env(RunReturns(<<>>), <<"ok", "ok">>, "storage error")] }
Batches == UNION {[1..k -> BatchPool] : k \in 0..MaxBatch}

\* The record of an executor call: as Call, with the collaborator calls it
\* made in calls, str(e) of the exception that left it in text, the errors it
\* held in errors and whether it returned them.
ExecCall(op, arg, r) ==
    [op |-> op, exc |-> r.exc, before |-> started, arg |-> arg, evals |-> <<>>,
     records |-> <<>>, calls |-> r.calls, text |-> r.text, errors |-> r.errors,
     returned |-> r.returned]

ExecUnchanged ==
    UNCHANGED <<started, scheduler, sched_running, workflows_to_run, lock, drained,
                start_calls, stop_calls, workflows, threads, manager_class>>

\* One _run_workflow call, as the scheduler's worker makes it.
RunWorkflow ==
    \E AUTH_TYPE \in AuthTypes, workflow \in ExecWorkflows, env \in Envs :
        /\ last' = ExecCall("_run_workflow", <<AUTH_TYPE, workflow, Uuid(0), env>>,
                            run_workflow(AUTH_TYPE, workflow, Uuid(0), env))
        /\ ExecUnchanged

\* One _run_workflows_from_cli call.
RunWorkflowsFromCli ==
    \E AUTH_TYPE \in AuthTypes, batch \in Batches :
        /\ last' = ExecCall("_run_workflows_from_cli", <<AUTH_TYPE, batch>>,
                            run_workflows_from_cli(AUTH_TYPE, batch, 1, BatchStart))
        /\ ExecUnchanged

NextRun == RunWorkflow \/ RunWorkflowsFromCli

SpecRun == Init /\ [][NextRun]_vars

\* ------------------------------------- SpecResults: the aggregated results
\* Most actions, and most steps, of a workflow in SpecResults.
MaxElements == 2

\* d[k] = v on a dict.
DictSet(d, k, v) == [x \in DOMAIN d \cup {k} |-> IF x = k THEN v ELSE d[x]]
EmptyDict == [x \in {} |-> <<>>]

\* {e.name: e.provider.results for e in elements}, from element i on.
RECURSIVE dict_of(_, _, _)
dict_of(elements, i, d) ==
    IF i > Len(elements) THEN d
    ELSE dict_of(elements, i + 1, DictSet(d, elements[i].name, elements[i].results))

\* d.update(other)
dict_update(d, other) ==
    [x \in DOMAIN d \cup DOMAIN other |-> IF x \in DOMAIN other THEN other[x] ELSE d[x]]

\* The aggregation with the actions' results written over the steps'.
workflow_results_actions_last(workflow_actions, workflow_steps) ==
    LET actions == dict_of(workflow_actions, 1, EmptyDict) IN
    IF workflow_steps # <<>>
    THEN dict_update(dict_of(workflow_steps, 1, EmptyDict), actions)
    ELSE actions

\* The workflow_results of _get_workflow_results and _save_workflow_results.
workflow_results(workflow_actions, workflow_steps) ==
    LET actions == dict_of(workflow_actions, 1, EmptyDict) IN
    IF workflow_steps # <<>>
    THEN dict_update(actions, dict_of(workflow_steps, 1, EmptyDict))
    ELSE actions

\* The actions or steps of a workflow with the given names: the i-th element
\* holds a result of its own.
ElementNames == {"notify", "enrich", "check"}
Elements(kind, names) ==
    [i \in 1..Len(names) |-> [name |-> names[i], results |-> <<kind, i>>]]
NameLists == SeqsUpTo(ElementNames, 0, MaxElements)

\* The record of an aggregation call: as Call, with the mapping it built in
\* workflow_results and, for _save_workflow_results, the save call in calls.
ResultsCall(op, exc, arg, mapping, calls) ==
    [op |-> op, exc |-> exc, before |-> started, arg |-> arg, evals |-> <<>>,
     records |-> <<>>, calls |-> calls, workflow_results |-> mapping]

\* The first call on a new manager: _get_workflow_results.
GetWorkflowResults ==
    /\ last.op = "__init__"
    /\ \E actions \in NameLists, steps \in NameLists :
        LET workflow_actions == Elements("action", actions)
            workflow_steps == Elements("step", steps)
        IN /\ last' = ResultsCall("_get_workflow_results", "None",
                                  <<workflow_actions, workflow_steps>>,
                                  workflow_results(workflow_actions, workflow_steps), <<>>)
           /\ ExecUnchanged

\* The first call on a new manager: _save_workflow_results; save is how
\* save_workflow_results ends.
SaveWorkflowResults ==
    /\ last.op = "__init__"
    /\ \E actions \in NameLists, steps \in NameLists, save \in SaveOutcomes :
        LET workflow_actions == Elements("action", actions)
            workflow_steps == Elements("step", steps)
            mapping == workflow_results(workflow_actions, workflow_steps)
        IN /\ last' = ResultsCall("_save_workflow_results",
                                  IF save = "ok" THEN "None" ELSE "Exception",
                                  <<workflow_actions, workflow_steps>>, mapping,
                                  <<[call |-> "save_workflow_results",
                                     tenant_id |-> TenantId,
                                     workflow_execution_id |-> Uuid(0),
                                     workflow_results |-> mapping]>>)
           /\ ExecUnchanged

NextResults == GetWorkflowResults \/ SaveWorkflowResults

SpecResults == Init /\ [][NextResults]_vars

\* ------------------------------------- SpecLookup: _get_event_value
\* A dict is kept by its mapping; its keys, like the attribute names of an
\* event, are strings (tuples of characters).
PyDict(m) == [t |-> "dict", v |-> m]

\* bool(x) of a value that may be a dict.
TruthyValue(x) == IF x.t = "dict" THEN DOMAIN x.v # {} ELSE Truthy(x)

\* "." in filter_key
HasDot(filter_key) == \E i \in 1..Len(filter_key) : filter_key[i] = "."

\* filter_key.split("."): the segments of key from position i on, seg being
\* the segment read so far.
RECURSIVE Split(_, _, _)
Split(key, i, seg) ==
    IF i > Len(key) THEN <<seg>>
    ELSE IF key[i] = "." THEN <<seg>> \o Split(key, i + 1, <<>>)
    ELSE Split(key, i + 1, Append(seg, key[i]))

\* What a _get_event_value call gives: the value it returns (PyNone for
\* None), or the exception that leaves it.
Returns(value) == [exc |-> "None", value |-> value]
Raises(exc) == [exc |-> exc, value |-> PyNone]

\* getattr(event, name, None)
getattr_or_none(event, name) == IF name \in DOMAIN event THEN event[name] ELSE PyNone

\* The `for key in filter_key_split[1:]` loop from segment i on: .get on a
\* value that is not a dict raises AttributeError.
RECURSIVE get_event_value_loop(_, _, _)
get_event_value_loop(event_val, filter_key_split, i) ==
    IF i > Len(filter_key_split) THEN Returns(event_val)
    ELSE IF event_val.t # "dict" THEN Raises("AttributeError")
    ELSE LET next == IF filter_key_split[i] \in DOMAIN event_val.v
                     THEN event_val.v[filter_key_split[i]] ELSE PyNone
         IN IF ~TruthyValue(next) THEN Returns(PyNone)
            ELSE get_event_value_loop(next, filter_key_split, i + 1)

\* WorkflowManager._get_event_value
get_event_value(event, filter_key) ==
    IF HasDot(filter_key)
    THEN LET filter_key_split == Split(filter_key, 1, <<>>)
             event_val == getattr_or_none(event, filter_key_split[1])
         IN IF ~TruthyValue(event_val) THEN Returns(PyNone)
            ELSE get_event_value_loop(event_val, filter_key_split, 2)
    ELSE Returns(getattr_or_none(event, filter_key))

\* The events of SpecLookup: an attribute a that holds a plain value (falsy
\* or not), or a dict, empty or with a key b that again holds a plain value
\* or a dict with a key c; and an event without the attribute a.
PlainValues ==
    { PyInt(0), PyInt(5), PyBool(FALSE), PyBool(TRUE), PyStr(<<>>), PyStr(<<"x">>) }
Obj(name, value) == [k \in {name} |-> value]
LookupValues ==
    PlainValues
        \cup {PyDict(EmptyDict)}
        \cup {PyDict(Obj(<<"b">>, v)) : v \in PlainValues \cup {PyDict(EmptyDict)}}
        \cup {PyDict(Obj(<<"b">>, PyDict(Obj(<<"c">>, v)))) : v \in PlainValues}
LookupEvents ==
    {Obj(<<"a">>, v) : v \in LookupValues} \cup {Obj(<<"i", "d">>, PyStr(S_i1))}
LookupKeys ==
    { <<"a">>, <<"z">>, <<"a", ".", "b">>, <<"a", ".", "z">>,
      <<"a", ".", "b", ".", "c">>, <<"z", ".", "b">> }

\* The record of a _get_event_value call: as Call, with the value returned.
LookupCall(arg, r) ==
    [op |-> "_get_event_value", exc |-> r.exc, before |-> started, arg |-> arg,
     evals |-> <<>>, records |-> <<>>, calls |-> <<>>, value |-> r.value]

\* One _get_event_value call.
GetEventValue ==
    \E event \in LookupEvents, filter_key \in LookupKeys :
        /\ last' = LookupCall(<<event, filter_key>>, get_event_value(event, filter_key))
        /\ ExecUnchanged

NextLookup == GetEventValue

SpecLookup == Init /\ [][NextLookup]_vars

\* ------------------------- SpecSingleton: get_instance calls on threads
\* Each thread makes get_instance calls one after the other, taken statement
\* by statement: pc is its place in get_instance, made the manager its
\* WorkflowManager() call constructed (0: none).
Callers == {"t1", "t2", "t3"}

InitSingleton ==
    /\ InitManager
    /\ workflows = StoreWorkflows
    /\ threads = [t \in Callers |-> [pc |-> "idle", made |-> 0]]

SingletonUnchanged ==
    UNCHANGED <<started, scheduler, sched_running, workflows_to_run, lock, drained,
                start_calls, stop_calls, workflows, last>>

\* `if not hasattr(WorkflowManager, "_instance")`
GetInstanceCheck(t) ==
    /\ threads[t].pc = "idle"
    /\ threads' = [threads EXCEPT ![t].pc =
                       IF manager_class.instance = 0 THEN "construct" ELSE "return"]
    /\ UNCHANGED manager_class
    /\ SingletonUnchanged

\* WorkflowManager(): a new manager, with its own scheduler.
GetInstanceConstruct(t) ==
    /\ threads[t].pc = "construct"
    /\ manager_class' = [manager_class EXCEPT !.constructed = @ + 1]
    /\ threads' = [threads EXCEPT ![t].pc = "assign",
                                  ![t].made = manager_class.constructed + 1]
    /\ SingletonUnchanged

\* WorkflowManager._instance = (the manager constructed)
GetInstanceAssign(t) ==
    /\ threads[t].pc = "assign"
    /\ manager_class' = [manager_class EXCEPT !.instance = threads[t].made]
    /\ threads' = [threads EXCEPT ![t].pc = "return", ![t].made = 0]
    /\ SingletonUnchanged

\* `return WorkflowManager._instance`; the thread may call again.
GetInstanceReturn(t) ==
    /\ threads[t].pc = "return"
    /\ manager_class' = [manager_class EXCEPT !.returned = @ \cup {manager_class.instance}]
    /\ threads' = [threads EXCEPT ![t].pc = "idle"]
    /\ SingletonUnchanged

GetInstanceStep ==
    \E t \in Callers :
        \/ GetInstanceCheck(t)
        \/ GetInstanceConstruct(t)
        \/ GetInstanceAssign(t)
        \/ GetInstanceReturn(t)

NextSingleton == GetInstanceStep

SpecSingleton == InitSingleton /\ [][NextSingleton]_vars

\* ------------------------------ SpecStart: start() calls as coroutines
\* Each coroutine makes one start() call on a manager that was never started:
\* pc is "idle" before the call, "await" while it is suspended in
\* `await self.scheduler.start()`, "done" after it.
Coroutines == {"c1", "c2"}

InitStart ==
    /\ InitManager
    /\ workflows = StoreWorkflows
    /\ threads = [c \in Coroutines |-> [pc |-> "idle"]]

\* start() up to its await: the test of self.started and the call of
\* scheduler.start(), which suspends the coroutine.
StartCall(c) ==
    /\ threads[c].pc = "idle"
    /\ IF started
       THEN /\ threads' = [threads EXCEPT ![c].pc = "done"]
            /\ UNCHANGED start_calls
       ELSE /\ threads' = [threads EXCEPT ![c].pc = "await"]
            /\ start_calls' = start_calls + 1
    /\ last' = SimpleCall("start", "None", started)
    /\ UNCHANGED <<started, scheduler, sched_running, workflows_to_run, lock, drained,
                   stop_calls, workflows, manager_class>>

\* scheduler.start() has completed: the coroutine resumes and sets
\* self.started = True.
StartResume(c) ==
    /\ threads[c].pc = "await"
    /\ sched_running' = TRUE
    /\ started' = TRUE
    /\ threads' = [threads EXCEPT ![c].pc = "done"]
    /\ UNCHANGED <<scheduler, workflows_to_run, lock, drained, start_calls, stop_calls,
                   workflows, last, manager_class>>

StartStep == \E c \in Coroutines : StartCall(c) \/ StartResume(c)

\* The producers and the scheduler's loop go on while the coroutines run.
StartProducers ==
    /\ (InsertIncident \/ InsertUserAssigned \/ Tick)
    /\ UNCHANGED threads

NextStart == StartStep \/ StartProducers

SpecStart == InitStart /\ [][NextStart]_vars

\* ------------------------------------------------------------------ claims
Runs == workflows_to_run \o drained
StoreEntry(id) == workflows[CHOOSE i \in 1..Len(workflows) : workflows[i].id = id]
\* The runs a step appended to workflows_to_run.
Appended == SubSeq(workflows_to_run', Len(workflows_to_run) + 1, Len(workflows_to_run'))
ManagerState == <<started, scheduler, sched_running, workflows_to_run, lock, drained,
                  start_calls, stop_calls>>

\* C1: for a Running manager, stop() followed immediately by start() returns
\* the manager to Running without an error (and runs inserted afterwards are
\* accepted): a start() made right after a stop() that stopped a Running
\* manager returns normally and leaves the manager started.
C1_RestartReturnsToRunning ==
    [][(last.op = "stop" /\ last.before /\ last.exc = "None" /\ last'.op = "start")
          => (last'.exc = "None" /\ started' /\ sched_running')]_vars

\* C2: stop() on a manager that is already Stopped (a second stop in a row, or
\* a stop before any start) raises nothing, does not call scheduler.stop()
\* again, and leaves the manager's state as it was.
C2_StopIdempotent ==
    [][(last'.op = "stop" /\ ~started)
          => (last'.exc = "None" /\ stop_calls' = stop_calls /\ UNCHANGED ManagerState)]_vars

\* C2's case: a second stop() in a row has returned.
C2_Witness ==
    last.op = "stop" /\ ~last.before /\ last.exc = "None" /\ stop_calls = 1
        /\ scheduler = "None"

\* C3: a start() made while Running is a no-op; over sequential start()/stop()
\* calls scheduler.start() is called exactly once per Stopped -> Running
\* transition, and the manager is Running exactly when its scheduler runs.
C3_StartIdempotent ==
    [][/\ (last'.op = "start" /\ started)
             => (last'.exc = "None" /\ UNCHANGED ManagerState)
       /\ (start_calls' = start_calls + 1) <=> (~started /\ started')
       /\ start_calls' \in {start_calls, start_calls + 1}
       /\ started' \in BOOLEAN /\ started' = sched_running']_vars

\* C3's case: a start() made while Running has returned.
C3_Witness ==
    last.op = "start" /\ last.before /\ last.exc = "None" /\ started /\ start_calls = 1

HasTriggerOfKind(workflow, kind) ==
    \E i \in 1..Len(workflow.triggers) : workflow.triggers[i].type = kind
Subscribed(workflow, transition) ==
    \E i \in 1..Len(workflow.triggers) :
        workflow.triggers[i].type = "incident" /\ transition \in workflow.triggers[i].events
\* An enabled, resolvable workflow with triggers [{kind: incident, events: [created]}].
CreatedOnly(workflow) ==
    /\ ~workflow.is_disabled
    /\ workflow.resolve = "ok"
    /\ workflow.triggers = <<Trigger("incident", {"created"}, <<>>)>>

\* C7: an event enqueues a workflow only if the workflow has a trigger of the
\* event's kind, for an incident event one whose events hold the transition;
\* a workflow with triggers [{incident, [created]}] is scheduled by a
\* returning insert_incident for "created" and not for "resolved".
C7_KindAndTransition ==
    [][/\ last'.op = "insert_incident" =>
            /\ \A i \in 1..Len(Appended) :
                   /\ Appended[i].triggered_by = <<"incident", last'.arg[2]>>
                   /\ Subscribed(StoreEntry(Appended[i].workflow_id), last'.arg[2])
            /\ last'.exc = "None" =>
                   \A j \in 1..Len(workflows) :
                       CreatedOnly(workflows[j]) =>
                           ((\E i \in 1..Len(Appended) :
                                 Appended[i].workflow_id = workflows[j].id)
                              <=> last'.arg[2] = "created")
       /\ last'.op = "insert_user_assigned_event" =>
            \A i \in 1..Len(Appended) :
                /\ Appended[i].triggered_by = <<"user_assigned">>
                /\ HasTriggerOfKind(StoreEntry(Appended[i].workflow_id), "user_assigned")]_vars

\* C7's case: an insert_incident for "resolved" enqueued a subscribed workflow
\* and not the workflow subscribed to "created" only.
C7_Witness ==
    /\ last.op = "insert_incident" /\ last.arg[2] = "resolved" /\ last.exc = "None"
    /\ \E i \in 1..Len(workflows_to_run) :
           workflows_to_run[i].triggered_by = <<"incident", "resolved">>
    /\ \A i \in 1..Len(workflows_to_run) : workflows_to_run[i].workflow_id # "wf-created"

\* A filter rejects an event: its key is absent, or its predicate is false
\* with exclude = false, or true with exclude = true.
FilterRejects(filter, event) ==
    \/ filter.key \notin DOMAIN event
    \/ /\ filter.key \in DOMAIN event
       /\ Truthy(apply_filter(filter.value, event[filter.key])) = filter.exclude

\* C8: filters are evaluated for incident events: every run insert_incident
\* enqueued has a subscribed incident trigger none of whose filters rejects
\* the incident.
C8_IncidentFiltersEvaluated ==
    \A r \in 1..Len(Runs) :
        Runs[r].triggered_by[1] = "incident" =>
            \E i \in 1..Len(StoreEntry(Runs[r].workflow_id).triggers) :
                LET trigger == StoreEntry(Runs[r].workflow_id).triggers[i] IN
                /\ trigger.type = "incident"
                /\ Runs[r].triggered_by[2] \in trigger.events
                /\ \A f \in 1..Len(trigger.filters) :
                       ~FilterRejects(trigger.filters[f], Runs[r].event)

\* Every filter key of the trigger is a key of the event.
AllKeysPresent(filters, data) == \A f \in 1..Len(filters) : filters[f].key \in DOMAIN data

\* C5: when every filter key of an evaluated trigger is present in the event,
\* the trigger yields should_run = true exactly when, for every filter, the
\* predicate's result differs from the filter's exclude flag.
C5_FilterSemantics ==
    last.op = "insert_user_assigned_event" =>
        \A e \in 1..Len(last.evals) :
            LET filters == last.evals[e].filters
                data == last.arg[1]
            IN AllKeysPresent(filters, data) =>
                   (last.evals[e].should_run <=>
                        \A f \in 1..Len(filters) :
                            Truthy(apply_filter(filters[f].value, data[filters[f].key]))
                                # filters[f].exclude)

\* C5's case: the pass evaluated a trigger of two filters, one of them
\* excluding, all keys present, that yields true, after one that yields false.
C5_Witness ==
    /\ last.op = "insert_user_assigned_event"
    /\ \E e \in 1..Len(last.evals) :
           /\ Len(last.evals[e].filters) = 2
           /\ AllKeysPresent(last.evals[e].filters, last.arg[1])
           /\ \E f \in 1..2 : last.evals[e].filters[f].exclude
           /\ last.evals[e].should_run
    /\ \E e \in 1..Len(last.evals) :
           /\ AllKeysPresent(last.evals[e].filters, last.arg[1])
           /\ ~last.evals[e].should_run

\* The trigger has a filter whose key the event lacks.
SomeKeyAbsent(filters, data) == \E f \in 1..Len(filters) : filters[f].key \notin DOMAIN data

\* For user_assigned events (SpecMatch): a trigger with a filter whose key the
\* event lacks is rejected, whatever that filter's exclude flag and the other
\* filters; a workflow all of whose user_assigned triggers are rejected this
\* way is not enqueued.
UserAssignedAbsentFieldRejects ==
    last.op = "insert_user_assigned_event" =>
        /\ \A e \in 1..Len(last.evals) :
               SomeKeyAbsent(last.evals[e].filters, last.arg[1]) => ~last.evals[e].should_run
        /\ \A w \in 1..Len(workflows) :
               (\A i \in 1..Len(workflows[w].triggers) :
                    workflows[w].triggers[i].type = "user_assigned" =>
                        SomeKeyAbsent(workflows[w].triggers[i].filters, last.arg[1]))
                 => \A r \in 1..Len(Runs) :
                        ~(Runs[r].workflow_id = workflows[w].id /\ Runs[r].event = last.arg[1])

\* Its case: the pass evaluated a trigger whose first filter accepts the event
\* and whose second, excluding, filter names a key the event lacks; nothing
\* was enqueued.
UserAssignedAbsentFieldCase ==
    /\ last.op = "insert_user_assigned_event"
    /\ \E e \in 1..Len(last.evals) :
           LET filters == last.evals[e].filters IN
           /\ Len(filters) = 2
           /\ filters[1].key \in DOMAIN last.arg[1]
           /\ ~FilterRejects(filters[1], last.arg[1])
           /\ filters[2].key \notin DOMAIN last.arg[1]
           /\ filters[2].exclude
           /\ ~last.evals[e].should_run
    /\ workflows_to_run = <<>>

\* The triggers of the run's workflow that are of the run's kind (for an
\* incident run: subscribed to its transition).
MatchingKind(run) ==
    LET triggers == StoreEntry(run.workflow_id).triggers IN
    {i \in 1..Len(triggers) :
        /\ triggers[i].type = run.triggered_by[1]
        /\ run.triggered_by[1] = "incident" => run.triggered_by[2] \in triggers[i].events}

\* C6: a trigger with a filter whose key the event lacks is rejected, whatever
\* the filter's exclude flag and the other filters, and a workflow all of whose
\* matching-kind triggers are rejected this way is not enqueued: every run
\* enqueued has a matching-kind trigger all of whose filter keys its event has.
C6_AbsentFieldRejects ==
    \A r \in 1..Len(Runs) :
        \E i \in MatchingKind(Runs[r]) :
            ~SomeKeyAbsent(StoreEntry(Runs[r].workflow_id).triggers[i].filters, Runs[r].event)

\* The mentions of the comment of the last add_comment call.
LastMentions == find_mentions(last.arg[1], 1)

\* C9: adding a comment produces exactly one mention record per @-mention
\* (user id: the text after "@") and exactly one insert_user_assigned_event
\* call per mention, carrying that user as mentioned_user (the mention rows
\* being stored without error).
C9_MentionFanOut ==
    (last.op = "add_comment" /\ last.arg[3]) =>
        /\ Len(last.records) = Len(LastMentions)
        /\ \A i \in 1..Len(last.records) : last.records[i].user_id = LastMentions[i]
        /\ Len(last.calls) = Len(LastMentions)
        /\ \A i \in 1..Len(last.calls) :
               last.calls[i].mentioned_user = PyStr(LastMentions[i])

\* C10: with no notification client wired, adding a comment with mentions
\* raises nothing and still delivers one user_assigned event per mentioned
\* user to the manager.
C10_MentionsWithoutPusher ==
    (last.op = "add_comment" /\ last.arg[2] = "None" /\ last.arg[3]) =>
        /\ last.exc = "None"
        /\ Len(last.calls) = Len(LastMentions)
        /\ \A i \in 1..Len(last.calls) :
               last.calls[i].mentioned_user = PyStr(LastMentions[i])

\* The runs the call matches on its own: what the handler, run alone on an
\* empty queue, enqueues.
MatchedAlone(call) ==
    IF call.op = "insert_incident"
    THEN insert_incident("WorkflowScheduler", workflows, call.incident,
                         call.incident_enrichment, call.trigger, 1, CallStart(<<>>)).queue
    ELSE insert_user_assigned_event("WorkflowScheduler", workflows, call.data, 1,
                                    CallStart(<<>>)).queue
Count(run, runs) == Cardinality({i \in 1..Len(runs) : runs[i] = run})
RECURSIVE CountMatched(_, _)
CountMatched(run, ts) ==
    IF ts = {} THEN 0
    ELSE LET t == CHOOSE x \in ts : TRUE IN
         Count(run, MatchedAlone(threads[t].call)) + CountMatched(run, ts \ {t})
AllReturned ==
    /\ threads # NoThreads
    /\ \A t \in DOMAIN threads : threads[t].pc = "done" /\ threads[t].exc = "None"

\* C4: under any interleaving of concurrent insert_* calls, once all calls
\* have returned the queue (with what the scheduler already drained from it)
\* holds exactly the runs each call matched on its own: every run as many
\* times as the calls matched it, none lost, none duplicated.
C4_ConcurrentInsertsKeepQueue ==
    AllReturned =>
        /\ \A r \in 1..Len(Runs) :
               Count(Runs[r], Runs) = CountMatched(Runs[r], DOMAIN threads)
        /\ \A t \in DOMAIN threads :
               \A m \in 1..Len(MatchedAlone(threads[t].call)) :
                   Count(MatchedAlone(threads[t].call)[m], Runs)
                       = CountMatched(MatchedAlone(threads[t].call)[m], DOMAIN threads)

\* C4's case: two calls that each matched runs have returned, some of their
\* runs already drained by the scheduler and some still queued.
C4_Witness ==
    /\ AllReturned
    /\ \A t \in DOMAIN threads : MatchedAlone(threads[t].call) # <<>>
    /\ drained # <<>>
    /\ workflows_to_run # <<>>

\* C13: in every reachable manager state (never started, Running, Stopped
\* after stop(), restarted) and for any tenant workflow set, insert_incident
\* and insert_user_assigned_event return normally to the producer.
C13_ProducersNeverSeeFailures ==
    last.op \in {"insert_incident", "insert_user_assigned_event"} => last.exc = "None"

\* The inputs and the collaborator calls of the last _run_workflow call.
RunAuthType == last.arg[1]
RunWorkflowArg == last.arg[2]
RunExecutionId == last.arg[3]
RunEnv == last.arg[4]
CallsOf(name) == {i \in 1..Len(last.calls) : last.calls[i].call = name}
Contains(text, piece) == \E i \in 1..Len(text) : text[i] = piece
\* The deployment restricts providers and the workflow references one.
Gated(AUTH_TYPE, workflow) ==
    /\ AUTH_TYPE \in {"AUTH0", "MULTI_TENANT"}
    /\ \E i \in 1..Len(workflow.workflow_providers_type) :
           workflow.workflow_providers_type[i] \in {"bash", "python", "llamacpp", "ollama"}
\* A step raised an error: workflow.run was reached and returned errors or
\* raised. StepErrors are the error texts.
StepRaised ==
    /\ ~Gated(RunAuthType, RunWorkflowArg)
    /\ RunEnv.run.raises \/ RunEnv.run.errors # <<>>
StepErrors == IF RunEnv.run.raises THEN <<RunEnv.run.text>> ELSE RunEnv.run.errors
\* The run ended Failed: an exception left it or it returned errors.
RunFailed == last.exc # "None" \/ (last.returned /\ last.errors # <<>>)
\* The run ended: it returned or an exception left it.
RunEnded == last.returned \/ last.exc # "None"

\* C11: for a run of a workflow with on_failure configured in which a step
\* raises an error (returned in the error list or propagated), the run ends
\* Failed, on_failure executes exactly once during the run, its sole parameter
\* is a message holding the workflow id and the error text, and the run's
\* error outcome is non-empty.
C11_CompensationOnce ==
    (last.op = "_run_workflow" /\ RunWorkflowArg.on_failure /\ StepRaised) =>
        /\ RunFailed
        /\ Cardinality(CallsOf("on_failure.run")) = 1
        /\ \A i \in CallsOf("on_failure.run") :
               /\ DOMAIN last.calls[i].provider_parameters = {"message"}
               /\ Contains(last.calls[i].provider_parameters.message,
                           RunWorkflowArg.workflow_id)
               /\ \A e \in 1..Len(StepErrors) :
                      Contains(last.calls[i].provider_parameters.message, StepErrors[e])
        /\ IF last.returned THEN last.errors # <<>> ELSE last.text # <<>>

\* C12: if the on_failure action itself raises, it is not run a second time,
\* the failure reported for the run is not the on_failure error (the original
\* error is not replaced or masked), and the run still ends Failed.
C12_CompensationContained ==
    (/\ last.op = "_run_workflow"
     /\ CallsOf("on_failure.run") # {}
     /\ RunEnv.on_failure_run[1] # "ok") =>
        /\ Cardinality(CallsOf("on_failure.run")) = 1
        /\ ~(last.exc # "None" /\ \E n \in 1..2 : last.text = <<RunEnv.on_failure_run[n]>>)
        /\ RunFailed

\* C14: when the deployment is in restricted mode and the workflow references
\* a restricted provider, the run is aborted before workflow.run is invoked
\* and is reported as failed; otherwise gating does not abort the run:
\* workflow.run is the first thing the run does.
C14_GatingPrecedesExecution ==
    last.op = "_run_workflow" =>
        IF Gated(RunAuthType, RunWorkflowArg)
        THEN /\ CallsOf("workflow.run") = {}
             /\ CallsOf("save_workflow_results") = {}
             /\ last.exc # "None"
             /\ ~last.returned
        ELSE /\ last.calls # <<>>
             /\ last.calls[1] = RunCall(RunExecutionId)

\* C14's case: a run of a workflow that references bash under MULTI_TENANT has
\* ended with the premium-provider exception.
C14_Witness ==
    /\ last.op = "_run_workflow"
    /\ RunAuthType = "MULTI_TENANT"
    /\ Gated(RunAuthType, RunWorkflowArg)
    /\ last.exc = "Exception"
    /\ Contains(last.text, "bash")
    /\ CallsOf("workflow.run") = {}

\* C15: _run_workflows_from_cli runs the workflows one after the other in
\* input order and returns the list of their error lists, one entry per input
\* workflow in input order, whether the workflows succeed or fail.
C15_BatchReturnsAllErrorLists ==
    last.op = "_run_workflows_from_cli" =>
        LET batch == last.arg[2] IN
        /\ last.exc = "None" /\ last.returned
        /\ Len(last.errors) = Len(batch)
        /\ \A i \in 1..Len(batch) : last.errors[i] = batch[i].env.run.errors
        /\ \A i, j \in CallsOf("workflow.run") :
               i < j => last.calls[i].workflow_execution_id[2]
                            < last.calls[j].workflow_execution_id[2]
        /\ Cardinality(CallsOf("workflow.run")) = Len(batch)

\* C16: when saving a run's results fails, the failure is re-raised to the
\* caller, and the errors of the run, if any, are not lost: the caller holds
\* them or on_failure was handed them.
C16_PersistenceFailureKeepsErrors ==
    (/\ last.op = "_run_workflow"
     /\ CallsOf("save_workflow_results") # {}
     /\ RunEnv.save # "ok") =>
        /\ last.exc # "None"
        /\ last.text = <<RunEnv.save>>
        /\ RunEnv.run.errors # <<>> =>
               \/ last.returned /\ last.errors = RunEnv.run.errors
               \/ \E i \in CallsOf("on_failure.run") :
                      \A e \in 1..Len(RunEnv.run.errors) :
                          Contains(last.calls[i].provider_parameters.message,
                                   RunEnv.run.errors[e])

\* C17: every run that has ended, Succeeded or Failed (a run an exception
\* left included), has had its results saved exactly once, tagged with its
\* tenant id and its execution id.
C17_EveryRunRecorded ==
    (last.op = "_run_workflow" /\ RunEnded) =>
        /\ Cardinality(CallsOf("save_workflow_results")) = 1
        /\ \A i \in CallsOf("save_workflow_results") :
               last.calls[i] = SaveCall(RunWorkflowArg.tenant_id, RunExecutionId)

\* The filter carries the regex marker, its key is in the event, and applying
\* it errors: the pattern does not compile, or the value is not a str
\* (findall raises TypeError).
BrokenRegex(filter, data) ==
    /\ filter.key \in DOMAIN data
    /\ IsRegexMarker(filter.value)
    /\ ~ReCompiles(RegexPattern(filter.value)) \/ data[filter.key].t # "str"

\* C18: a regex filter whose pattern does not compile or whose match errors
\* gives a falsy result (its trigger is rejected unless the filter excludes),
\* no exception leaves the insert call, and matching goes on: the pass over
\* the workflow's triggers stops only at a trigger that yields true, and the
\* next workflow is evaluated and enqueued.
C18_RegexErrorsAreNonMatches ==
    last.op = "insert_user_assigned_event" =>
        LET evals == last.evals
            data == last.arg[1]
            k == Len(evals) - 1
            triggers == workflows[1].triggers
        IN /\ last.exc = "None"
           /\ \A e \in 1..Len(evals) :
                  (Len(evals[e].filters) = 1 /\ BrokenRegex(evals[e].filters[1], data))
                      => (evals[e].should_run <=> evals[e].filters[1].exclude)
           /\ k >= 1 /\ k <= Len(triggers)
           /\ \A e \in 1..k :
                  /\ evals[e].filters = triggers[e].filters
                  /\ e < k => ~evals[e].should_run
           /\ k < Len(triggers) => evals[k].should_run
           /\ evals[k + 1] = [filters |-> <<>>, should_run |-> TRUE]
           /\ \E i \in 1..Len(workflows_to_run) : workflows_to_run[i].workflow_id = "wf-next"

\* C18's case: the pass met a trigger whose pattern does not compile, rejected
\* it, went on to the workflow's next trigger, which matched, and enqueued
\* both workflows.
C18_Witness ==
    /\ last.op = "insert_user_assigned_event" /\ last.exc = "None"
    /\ Len(last.evals) = 3
    /\ last.evals[1].filters = <<Filter("env", PyStr(S_paren_re), FALSE)>>
    /\ ~last.evals[1].should_run
    /\ last.evals[2].should_run
    /\ Len(workflows_to_run) = 2
    /\ workflows_to_run[1].workflow_id = "wf"
    /\ workflows_to_run[2].workflow_id = "wf-next"

\* str(n) of an int.
DigitChars == <<"0", "1", "2", "3", "4", "5", "6", "7", "8", "9">>
RECURSIVE PyStrOfNat(_)
PyStrOfNat(n) ==
    IF n < 10 THEN <<DigitChars[n + 1]>>
    ELSE PyStrOfNat(n \div 10) \o <<DigitChars[(n % 10) + 1]>>
PyStrOfInt(n) == IF n < 0 THEN <<"-">> \o PyStrOfNat(-n) ELSE PyStrOfNat(n)

\* str(x) of a Python value.
PyStrOf(x) ==
    CASE x.t = "str" -> x.v
      [] x.t = "bool" -> PyStrOfBool(x.v)
      [] x.t = "int" -> PyStrOfInt(x.v)
      [] OTHER -> <<"N", "o", "n", "e">>

\* The pattern compiles and finds a match somewhere in s.
RegexFinds(p, s) == ReCompiles(p) /\ ReFindall(p, s, 0) # <<>>

\* C19: for a filter value with the regex marker and any present event value,
\* a str or not, the predicate is true exactly when the pattern finds a match
\* inside str(value): a trigger of one such including filter yields true
\* exactly then.
C19_RegexMatchesStringified ==
    last.op = "insert_user_assigned_event" =>
        \A e \in 1..Len(last.evals) :
            LET filters == last.evals[e].filters
                data == last.arg[1]
            IN (/\ Len(filters) = 1
                /\ IsRegexMarker(filters[1].value)
                /\ filters[1].key \in DOMAIN data
                /\ ~filters[1].exclude)
                   => (last.evals[e].should_run
                         <=> RegexFinds(RegexPattern(filters[1].value),
                                        PyStrOf(data[filters[1].key])))

\* The event of the last insert call (the incident as enriched) and whether a
\* workflow matches it: it has a trigger of the event's kind (for an incident
\* one subscribed to the transition) none of whose filters rejects the event.
LastEvent ==
    IF last.op = "insert_incident" THEN enrich(last.arg[1], last.arg[3]) ELSE last.arg[1]
MatchesLast(workflow) ==
    \E i \in 1..Len(workflow.triggers) :
        /\ IF last.op = "insert_incident"
           THEN workflow.triggers[i].type = "incident"
                    /\ last.arg[2] \in workflow.triggers[i].events
           ELSE workflow.triggers[i].type = "user_assigned"
        /\ \A f \in 1..Len(workflow.triggers[i].filters) :
               ~FilterRejects(workflow.triggers[i].filters[f], LastEvent)

\* C20: a disabled workflow is never enqueued, a workflow whose resolution
\* fails (provider not configured, or any other error) is skipped without
\* aborting the pass, and every other enabled, resolvable, matching workflow
\* of the tenant is enqueued by the same insert call.
C20_SkipsAreLocal ==
    last.op \in {"insert_incident", "insert_user_assigned_event"} =>
        /\ \A r \in 1..Len(workflows_to_run) :
               /\ ~StoreEntry(workflows_to_run[r].workflow_id).is_disabled
               /\ StoreEntry(workflows_to_run[r].workflow_id).resolve = "ok"
        /\ last.exc = "None"
        /\ \A j \in 1..Len(workflows) :
               (/\ ~workflows[j].is_disabled
                /\ workflows[j].resolve = "ok"
                /\ MatchesLast(workflows[j]))
                   => \E r \in 1..Len(workflows_to_run) :
                          workflows_to_run[r].workflow_id = workflows[j].id

\* C20's case: the pass met a workflow whose resolution raised and a disabled
\* workflow, skipped both, and enqueued the matching workflow after them.
C20_Witness ==
    /\ last.op = "insert_incident" /\ last.exc = "None"
    /\ Len(workflows) = 3
    /\ workflows[1].resolve = "Exception"
    /\ workflows[2].is_disabled
    /\ Len(workflows_to_run) = 1
    /\ workflows_to_run[1].workflow_id = workflows[3].id

\* The runs among rs that are of the workflow.
RunsOf(rs, workflow) == {i \in 1..Len(rs) : rs[i].workflow_id = workflow.id}

\* C21: among a workflow's triggers of the event's kind a trigger with zero
\* filters yields should_run = true, an enabled, resolvable workflow is
\* scheduled by an insert call exactly when one of those triggers yields
\* should_run = true (no filter of it rejects the event), and one call
\* enqueues at most one run per workflow however many of its triggers match.
C21_AnyTriggerWins ==
    [][(last'.op \in {"insert_incident", "insert_user_assigned_event"}
            /\ last'.exc = "None") =>
          \A j \in 1..Len(workflows) :
              /\ Cardinality(RunsOf(Appended, workflows[j])) <= 1
              /\ (~workflows[j].is_disabled /\ workflows[j].resolve = "ok") =>
                     (RunsOf(Appended, workflows[j]) # {} <=> MatchesLast(workflows[j])')]_vars

\* For user_assigned events (SpecMatch): the triggers are evaluated in order
\* up to the first that yields true, a trigger with zero filters yields true,
\* and the workflow is enqueued, once, exactly when the last trigger
\* evaluated yielded true.
UserAssignedAnyTriggerWins ==
    last.op = "insert_user_assigned_event" =>
        LET evals == last.evals
            triggers == workflows[1].triggers
        IN /\ Len(evals) >= 1 /\ Len(evals) <= Len(triggers)
           /\ \A e \in 1..Len(evals) :
                  /\ evals[e].filters = triggers[e].filters
                  /\ evals[e].filters = <<>> => evals[e].should_run
                  /\ e < Len(evals) => ~evals[e].should_run
           /\ Len(evals) < Len(triggers) => evals[Len(evals)].should_run
           /\ Len(workflows_to_run) = (IF evals[Len(evals)].should_run THEN 1 ELSE 0)

\* C22: every run insert_incident enqueues carries every stored enrichment
\* key and value of the incident, the enrichment value in place of the
\* incident's own on conflict, and the incident's other fields as they were;
\* with no stored enrichment the incident is enqueued unchanged.
C22_EnrichmentWins ==
    [][last'.op = "insert_incident" =>
          \A r \in 1..Len(Appended) :
              LET incident == last'.arg[1]
                  incident_enrichment == last'.arg[3]
                  event == Appended[r].event
              IN IF incident_enrichment.found
                 THEN /\ DOMAIN event
                            = DOMAIN incident \cup DOMAIN incident_enrichment.enrichments
                      /\ \A k \in DOMAIN incident_enrichment.enrichments :
                             event[k] = incident_enrichment.enrichments[k]
                      /\ \A k \in DOMAIN incident \ DOMAIN incident_enrichment.enrichments :
                             event[k] = incident[k]
                 ELSE event = incident]_vars

\* C22's case: an incident of severity critical with a stored enrichment of
\* severity low and team ops was enqueued with severity low, team ops and its
\* own id.
C22_Witness ==
    /\ last.op = "insert_incident" /\ last.exc = "None"
    /\ last.arg[1].severity = PyStr(S_critical)
    /\ last.arg[3].found
    /\ workflows_to_run # <<>>
    /\ workflows_to_run[Len(workflows_to_run)].event
           = [id |-> PyStr(S_i1), severity |-> PyStr(S_low), team |-> PyStr(S_ops)]

\* C27: in a run where gating passes, workflow.run raises nothing and returns
\* an empty error list, on_failure is never invoked, also when saving the
\* results then fails, and when the results are saved the caller receives
\* [errors, None] with an empty error list.
C27_NoSpuriousCompensation ==
    (/\ last.op = "_run_workflow"
     /\ ~Gated(RunAuthType, RunWorkflowArg)
     /\ ~RunEnv.run.raises
     /\ RunEnv.run.errors = <<>>) =>
        /\ CallsOf("on_failure.run") = {}
        /\ RunEnv.save = "ok" =>
               (last.exc = "None" /\ last.returned /\ last.errors = <<>>)

\* C27's case: a run of a workflow with on_failure configured returned no
\* errors, saving its results failed, and on_failure was not invoked.
C27_Witness ==
    /\ last.op = "_run_workflow"
    /\ RunWorkflowArg.on_failure
    /\ ~Gated(RunAuthType, RunWorkflowArg)
    /\ ~RunEnv.run.raises /\ RunEnv.run.errors = <<>>
    /\ RunEnv.save # "ok"
    /\ last.exc = "Exception"
    /\ CallsOf("on_failure.run") = {}
    /\ CallsOf("save_workflow_results") # {}

\* The names of the elements, and the result of the last element of that name.
NamesOf(elements) == {elements[i].name : i \in 1..Len(elements)}
LastResultOf(elements, name) ==
    elements[CHOOSE i \in 1..Len(elements) :
                 /\ elements[i].name = name
                 /\ \A j \in (i + 1)..Len(elements) : elements[j].name # name].results

\* C23: the result mapping, as built and as handed to save_workflow_results,
\* has one entry per distinct step or action name, each name mapped to that
\* element's result; a name shared by a step and an action has a single entry
\* holding the one assigned later, the step's.
C23_ResultAggregation ==
    last.op \in {"_get_workflow_results", "_save_workflow_results"} =>
        LET workflow_actions == last.arg[1]
            workflow_steps == last.arg[2]
        IN /\ DOMAIN last.workflow_results
                  = NamesOf(workflow_actions) \cup NamesOf(workflow_steps)
           /\ \A name \in DOMAIN last.workflow_results :
                  last.workflow_results[name] =
                      IF name \in NamesOf(workflow_steps)
                      THEN LastResultOf(workflow_steps, name)
                      ELSE LastResultOf(workflow_actions, name)
           /\ last.op = "_save_workflow_results" =>
                  /\ Len(last.calls) = 1
                  /\ last.calls[1].workflow_results = last.workflow_results

\* C23's case: a workflow whose action and step share the name notify, and
\* have another action besides, was saved with notify mapped to the step's
\* result.
C23_Witness ==
    /\ last.op = "_save_workflow_results"
    /\ Len(last.arg[1]) = 2 /\ Len(last.arg[2]) = 1
    /\ last.arg[1][1].name = "notify" /\ last.arg[1][2].name = "check"
    /\ last.arg[2][1].name = "notify"
    /\ last.calls[1].workflow_results
           = [n \in {"notify", "check"} |->
                 IF n = "notify" THEN <<"step", 1>> ELSE <<"action", 2>>]

\* What is at the path in the event: the first segment read as an attribute,
\* each later one as a key of the mapping before it; absent when the
\* attribute or a key is missing (a value that is no mapping has no keys).
RECURSIVE AtPath(_, _, _)
AtPath(holder, segments, i) ==
    IF i > Len(segments) THEN [absent |-> FALSE, value |-> holder]
    ELSE IF i = 1
    THEN IF segments[1] \in DOMAIN holder
         THEN AtPath(holder[segments[1]], segments, 2)
         ELSE [absent |-> TRUE, value |-> PyNone]
    ELSE IF holder.t = "dict" /\ segments[i] \in DOMAIN holder.v
    THEN AtPath(holder.v[segments[i]], segments, i + 1)
    ELSE [absent |-> TRUE, value |-> PyNone]

\* C24: _get_event_value never raises, gives None (absent) exactly when the
\* first segment is not an attribute of the event or a later segment is a
\* missing key, and gives a value present at the path as that value, a falsy
\* one (0, False, "") included.
C24_LookupFailsClosed ==
    last.op = "_get_event_value" =>
        LET at == AtPath(last.arg[1], Split(last.arg[2], 1, <<>>), 1) IN
        /\ last.exc = "None"
        /\ at.absent <=> last.value = PyNone
        /\ ~at.absent => last.value = at.value

\* C25: when two start() coroutines interleave on a Stopped manager, the
\* second entering while the first is suspended awaiting the scheduler's
\* start, the scheduler is started at most once and the manager ends Running.
C25_ConcurrentStartOnce ==
    (\A c \in Coroutines : c \in DOMAIN threads /\ threads[c].pc = "done") =>
        (start_calls <= 1 /\ started /\ sched_running)

\* C26: every get_instance call, first calls made concurrently from several
\* threads included, returns the same manager, and at most one
\* WorkflowManager is ever constructed through it.
C26_SingletonUnderConcurrency ==
    /\ Cardinality(manager_class.returned) <= 1
    /\ manager_class.constructed <= 1

====
